---- MODULE Spec2Model ----
(***************************************************************************)
(* A model of the jsrepo block-graph builder and dependency resolver:      *)
(*   resolveTree / getInstalled   packages/cli/src/utils/blocks.ts         *)
(*   buildBlocksDirectory / pruneUnused                                    *)
(*                                packages/cli/src/utils/build/index.ts    *)
(***************************************************************************)
EXTENDS Integers, Sequences, FiniteSets, TLC

(***************************************************************************)
(* Bounds of the model.                                                    *)
(***************************************************************************)
MaxRequested == 2       \* longest list of requested block specifiers
MaxInstalled == 1       \* most entries of the caller's `installed` map
MaxLocalDeps == 2       \* most local dependencies of a block given to pruneUnused
MaxFiles == 2           \* most children of a category directory
MaxDirEntries == 2      \* most children of a block directory

(***************************************************************************)
(* The universe the inputs are drawn from.  A specifier `category/name` is *)
(* the pair <<category, name>>.                                            *)
(***************************************************************************)
Registries == {"r1", "r2"}
Specifiers == {<<"ui", "a">>, <<"ui", "b">>, <<"ui", "c">>}

VARIABLES
    \* ---- inputs of one top-level resolveTree call ----
    blocksMap,          \* Map<string, RemoteBlock>: key <<repo, category, name>>
    repoPaths,          \* RegistryProviderState[]: the configured registries, in order
    requested,          \* blockSpecifiers of the top-level call
    alreadyInstalled,   \* keys of the `installed` map of the top-level call
    \* ---- the running call ----
    stack,              \* the active resolveTree calls, outermost first
    ret,                \* the Result the call that returned last produced
    status,             \* "running" | "ok" | "err" | "overflow"
    \* ---- history, for the properties only ----
    resolveCount,       \* specifier -> how often lines 72-74 registered it
    firstError,         \* the first Err(...) any call created
    \* ---- pruneUnused ----
    categories,         \* the Category[] it is given
    pruned,             \* pruneUnused(categories)[0], once computed
    prunedAgain,        \* pruneUnused(pruned)[0], once computed
    prunePc,            \* "input" | "pruned" | "again"
    \* ---- buildBlocksDirectory ----
    paths,              \* fs.readdirSync(blocksPath), with what lies below each entry
    config,             \* the RegistryConfig
    built,              \* `categories`, the Category[] built so far
    pathIdx,            \* position of the loop of line 40
    category,           \* the Category being filled
    fileIdx,            \* position of the loop of line 64
    buildPc             \* "paths" | "files" | "done" | "fatal"

resolveVars == <<blocksMap, repoPaths, requested, alreadyInstalled,
                 stack, ret, status, resolveCount, firstError>>

pruneVars == <<categories, pruned, prunedAgain, prunePc>>

buildVars == <<paths, config, built, pathIdx, category, fileIdx, buildPc>>

vars == <<resolveVars, pruneVars, buildVars>>

(***************************************************************************)
(* Sequences helpers.                                                      *)
(***************************************************************************)
Range(s) == {s[i] : i \in 1..Len(s)}

NoDupSeqs(S, n) ==
    {s \in UNION {[1..k -> S] : k \in 0..n} : \A i, j \in 1..Len(s) : i # j => s[i] # s[j]}

(***************************************************************************)
(* The ordered Map<string, InstallingBlock> of resolveTree: a sequence of  *)
(* [key, val] in insertion order.  Map.set replaces the value of a key     *)
(* that is present, in place, and appends a new key.                       *)
(***************************************************************************)
MapKeys(m) == {m[i].key : i \in 1..Len(m)}

MapHas(m, k) == k \in MapKeys(m)

MapGet(m, k) == m[CHOOSE i \in 1..Len(m) : m[i].key = k].val

MapSet(m, k, v) ==
    IF MapHas(m, k)
    THEN [i \in 1..Len(m) |-> IF m[i].key = k THEN [key |-> k, val |-> v] ELSE m[i]]
    ELSE Append(m, [key |-> k, val |-> v])

\* array.fromMap(blocks, (_, val) => val)
fromMap(m) == [i \in 1..Len(m) |-> m[i].val]

(***************************************************************************)
(* Specifiers and registry providers.  A block specifier as the user or a  *)
(* manifest writes it is [repo, spec]: repo = "" for a bare                *)
(* `category/name`, and the registry for a fully qualified                 *)
(* `github/<owner>/<repo>/category/name`.                                  *)
(***************************************************************************)
Bare(spec) == [repo |-> "", spec |-> spec]

Qualified(repo, spec) == [repo |-> repo, spec |-> spec]

\* registry.selectProvider(blockSpecifier): a provider, or undefined for a bare one
selectProvider(blockSpecifier) == blockSpecifier.repo # ""

\* provider.parse(blockSpecifier, {fullyQualified: true})
parse(blockSpecifier) == [url |-> blockSpecifier.repo, specifier |-> blockSpecifier.spec]

\* url.join(repoIdent, specifier): the key of blocksMap
join(repoIdent, specifier) == <<repoIdent>> \o specifier

\* `${block.category}/${block.name}`
SpecifierOf(block) == <<block.category, block.name>>

RemoteBlock(repo, spec, deps) ==
    [name |-> spec[2], category |-> spec[1], localDependencies |-> deps,
     sourceRepo |-> repo]

(***************************************************************************)
(* resolveTree, lines 27-70: the block a specifier names.                  *)
(*   lookupKeys: the keys of blocksMap probed for it, in order;            *)
(*   a bare specifier probes every configured registry and takes the first *)
(*   block found, a qualified one probes its own registry only.            *)
(***************************************************************************)
lookupKeys(blockSpecifier) ==
    IF ~selectProvider(blockSpecifier)
    THEN [i \in 1..Len(repoPaths) |->
            LET p == parse(Qualified(repoPaths[i], blockSpecifier.spec))
            IN  join(p.url, p.specifier)]
    ELSE LET p == parse(blockSpecifier)
         IN  <<join(p.url, p.specifier)>>

foundKeys(blockSpecifier) ==
    SelectSeq(lookupKeys(blockSpecifier), LAMBDA k : k \in DOMAIN blocksMap)

\* line 33: a bare specifier while no registry is configured
noRepos(blockSpecifier) == ~selectProvider(blockSpecifier) /\ Len(repoPaths) = 0

\* line 68: !block
notFound(blockSpecifier) == foundKeys(blockSpecifier) = <<>>

lookupBlock(blockSpecifier) == blocksMap[Head(foundKeys(blockSpecifier))]

Err(kind, blockSpecifier) == [kind |-> "err", error |-> kind, at |-> blockSpecifier, val |-> <<>>]

Ok(val) == [kind |-> "ok", error |-> "", at |-> Bare(<<"", "">>), val |-> val]

NoResult == [kind |-> "none", error |-> "", at |-> Bare(<<"", "">>), val |-> <<>>]

isErr(r) == r.kind = "err"

\* lines 33-40 and 68-70: the Err a failing specifier returns
lookupError(blockSpecifier) ==
    IF noRepos(blockSpecifier)
    THEN Err("NoRepositoryConfigured", blockSpecifier)
    ELSE Err("BlockNotFound", blockSpecifier)

\* line 74: blocks.set(specifier, { name, subDependency: false, block })
registerBlock(blocks, block) ==
    MapSet(blocks, SpecifierOf(block),
           [name |-> block.name, subDependency |-> FALSE, block |-> block])

\* line 78: the dependencies the recursive call is given
subDepSpecifiers(block, blocks, installed) ==
    SelectSeq(block.localDependencies,
              LAMBDA dep : ~MapHas(blocks, dep) /\ dep \notin installed)

\* a merge loop that stops one entry short
RECURSIVE mergeSubDeps_DropLast(_, _)
mergeSubDeps_DropLast(blocks, subDeps) ==
    IF Len(subDeps) <= 1 THEN blocks
    ELSE mergeSubDeps_DropLast(
             MapSet(blocks, SpecifierOf(Head(subDeps).block), Head(subDeps)),
             Tail(subDeps))

\* lines 86-88: merge the recursive call's entries into the batch
RECURSIVE mergeSubDeps(_, _)
mergeSubDeps(blocks, subDeps) ==
    IF subDeps = <<>> THEN blocks
    ELSE mergeSubDeps(MapSet(blocks, SpecifierOf(Head(subDeps).block), Head(subDeps)),
                      Tail(subDeps))

(***************************************************************************)
(* One active call of resolveTree: its arguments blockSpecifiers and       *)
(* installed (only installed.has is used, so its keys), the local map      *)
(* `blocks`, the position idx of the for loop of line 26, and pc: "loop"   *)
(* at the head of an iteration, "await" suspended at line 77.              *)
(***************************************************************************)
Frame(blockSpecifiers, installed) ==
    [blockSpecifiers |-> blockSpecifiers, installed |-> installed,
     blocks |-> <<>>, idx |-> 1, pc |-> "loop"]

Top == stack[Len(stack)]

Pop == SubSeq(stack, 1, Len(stack) - 1)

ReplaceTop(frame) == [stack EXCEPT ![Len(stack)] = frame]

\* A call returns: to the caller suspended below it, or to the user.
Return(r) ==
    /\ stack' = Pop
    /\ ret' = r
    /\ status' = IF Len(stack) = 1 THEN r.kind ELSE status

Running == status = "running" /\ stack # <<>>

AtSpecifier == Running /\ Top.pc = "loop" /\ Top.idx <= Len(Top.blockSpecifiers)

Current == Top.blockSpecifiers[Top.idx]

\* A nested call whose arguments are those of a call that is still active
\* repeats that call's steps and makes the same nested call again: the
\* recursion never returns (RangeError: Maximum call stack size exceeded).
Recurs(blockSpecifiers, installed) ==
    \E k \in 1..Len(stack) :
        /\ stack[k].blockSpecifiers = blockSpecifiers
        /\ stack[k].installed = installed

inputVars == <<blocksMap, repoPaths, requested, alreadyInstalled>>

\* lines 32-41, 68-70: the specifier does not resolve; return Err
ResolveErr ==
    /\ AtSpecifier
    /\ noRepos(Current) \/ notFound(Current)
    /\ Return(lookupError(Current))
    /\ firstError' = IF isErr(firstError) THEN firstError ELSE lookupError(Current)
    /\ UNCHANGED <<inputVars, resolveCount, pruneVars, buildVars>>

\* lines 72-76: register the block; it has no local dependencies
ResolveLeaf ==
    /\ AtSpecifier
    /\ ~noRepos(Current) /\ ~notFound(Current)
    /\ LET block == lookupBlock(Current)
       IN  /\ Len(block.localDependencies) = 0
           /\ stack' = ReplaceTop([Top EXCEPT !.blocks = registerBlock(@, block),
                                              !.idx = @ + 1])
           /\ resolveCount' = [resolveCount EXCEPT ![SpecifierOf(block)] = @ + 1]
    /\ UNCHANGED <<inputVars, ret, status, firstError, pruneVars, buildVars>>

\* lines 72-82: register the block and call resolveTree on its dependencies
ResolveCall ==
    /\ AtSpecifier
    /\ ~noRepos(Current) /\ ~notFound(Current)
    /\ LET block == lookupBlock(Current)
           blocks == registerBlock(Top.blocks, block)
           deps == subDepSpecifiers(block, blocks, Top.installed)
           subSpecifiers == [i \in 1..Len(deps) |-> Bare(deps[i])]
           caller == [Top EXCEPT !.blocks = blocks, !.pc = "await"]
       IN  /\ Len(block.localDependencies) > 0
           /\ resolveCount' = [resolveCount EXCEPT ![SpecifierOf(block)] = @ + 1]
           /\ IF Recurs(subSpecifiers, MapKeys(blocks))
              THEN /\ stack' = ReplaceTop(caller)
                   /\ status' = "overflow"
              ELSE /\ stack' = Append(ReplaceTop(caller),
                                      Frame(subSpecifiers, MapKeys(blocks)))
                   /\ status' = status
    /\ UNCHANGED <<inputVars, ret, firstError, pruneVars, buildVars>>

\* a caller that drops the failure of the recursive call and goes on
AwaitErr_Swallow ==
    /\ Running /\ Top.pc = "await"
    /\ isErr(ret)
    /\ stack' = ReplaceTop([Top EXCEPT !.idx = @ + 1, !.pc = "loop"])
    /\ ret' = NoResult
    /\ UNCHANGED <<inputVars, status, resolveCount, firstError, pruneVars, buildVars>>

\* line 84: the recursive call failed; return its error
AwaitErr ==
    /\ Running /\ Top.pc = "await"
    /\ isErr(ret)
    /\ Return(Err(ret.error, ret.at))
    /\ UNCHANGED <<inputVars, resolveCount, firstError, pruneVars, buildVars>>

\* lines 86-89: the recursive call succeeded; merge and go on with the loop
AwaitOk ==
    /\ Running /\ Top.pc = "await"
    /\ ~isErr(ret)
    /\ stack' = ReplaceTop([Top EXCEPT !.blocks = mergeSubDeps(@, ret.val),
                                       !.idx = @ + 1, !.pc = "loop"])
    /\ ret' = NoResult
    /\ UNCHANGED <<inputVars, status, resolveCount, firstError, pruneVars, buildVars>>

\* line 92: the loop is over; return Ok(array.fromMap(blocks, ...))
ReturnOk ==
    /\ Running /\ Top.pc = "loop" /\ Top.idx > Len(Top.blockSpecifiers)
    /\ Return(Ok(fromMap(Top.blocks)))
    /\ UNCHANGED <<inputVars, resolveCount, firstError, pruneVars, buildVars>>

(***************************************************************************)
(* The inputs of a top-level call, over the blocks S and the registries R  *)
(* that publish them.  Every registry's manifest lists a block under its   *)
(* own specifier at most once; the local dependencies of a block are       *)
(* specifiers of other blocks, in any order.  Block names are              *)
(* interchangeable, so the first requested specifier is taken to name      *)
(* block a.                                                                *)
(***************************************************************************)
DepLists(S, spec) == NoDupSeqs(S \ {spec}, Cardinality(S) - 1)

Manifests(S, R) ==
    LET all == UNION {[keys -> UNION {DepLists(S, s) : s \in S}] :
                        keys \in SUBSET {join(r, s) : r \in R, s \in S}}
    IN  {deps \in all : \A k \in DOMAIN deps : deps[k] \in DepLists(S, <<k[2], k[3]>>)}

BlocksMapOf(deps) ==
    [k \in DOMAIN deps |-> RemoteBlock(k[1], <<k[2], k[3]>>, deps[k])]

BlockSpecifiersOf(S, R) ==
    {Bare(s) : s \in S} \cup {Qualified(r, s) : r \in R, s \in S}

InitResolve(S, R) ==
    /\ \E deps \in Manifests(S, R) : blocksMap = BlocksMapOf(deps)
    /\ repoPaths \in NoDupSeqs(R, Cardinality(R))
    /\ requested \in {l \in UNION {[1..n -> BlockSpecifiersOf(S, R)] : n \in 1..MaxRequested} :
                        l[1].spec = <<"ui", "a">>}
    /\ alreadyInstalled \in {I \in SUBSET S : Cardinality(I) <= MaxInstalled}
    /\ stack = <<Frame(requested, alreadyInstalled)>>
    /\ ret = NoResult
    /\ status = "running"
    /\ resolveCount = [s \in Specifiers |-> 0]
    /\ firstError = NoResult

\* no call of resolveTree is under way
IdleResolve ==
    /\ blocksMap = <<>> /\ repoPaths = <<>> /\ requested = <<>>
    /\ alreadyInstalled = {}
    /\ stack = <<>> /\ ret = NoResult /\ status = "idle"
    /\ resolveCount = [s \in Specifiers |-> 0]
    /\ firstError = NoResult

(***************************************************************************)
(* pruneUnused, build/index.ts lines 313-336.                              *)
(***************************************************************************)

\* isDependedOn(specifier, categories), of ./check: some other block of the
\* whole set lists the specifier among its localDependencies.
isDependedOn(specifier, cats) ==
    \E i \in 1..Len(cats) :
        \E j \in 1..Len(cats[i].blocks) :
            LET block == cats[i].blocks[j]
            IN  /\ SpecifierOf(block) # specifier
                /\ \E d \in 1..Len(block.localDependencies) :
                       block.localDependencies[d] = specifier

\* lines 320-330: the blocks of one category that are kept
catBlocks(cat, cats) ==
    SelectSeq(cat.blocks,
              LAMBDA block : block.list \/ isDependedOn(SpecifierOf(block), cats))

\* a scan for dependents that looks at the block's own category only
pruneUnused_OwnCategory(cats) ==
    LET kept == [i \in 1..Len(cats) |->
                    [name |-> cats[i].name,
                     blocks |-> catBlocks(cats[i], <<cats[i]>>)]]
    IN  SelectSeq(kept, LAMBDA cat : Len(cat.blocks) > 0)

\* lines 313-336: pruneUnused(categories)[0]
pruneUnused(cats) ==
    LET kept == [i \in 1..Len(cats) |->
                    [name |-> cats[i].name,
                     blocks |-> catBlocks(cats[i], cats)]]
    IN  SelectSeq(kept, LAMBDA cat : Len(cat.blocks) > 0)

Prune ==
    /\ prunePc = "input"
    /\ pruned' = pruneUnused(categories)
    /\ prunePc' = "pruned"
    /\ UNCHANGED <<categories, prunedAgain, resolveVars, buildVars>>

PruneAgain ==
    /\ prunePc = "pruned"
    /\ prunedAgain' = pruneUnused(pruned)
    /\ prunePc' = "again"
    /\ UNCHANGED <<categories, pruned, resolveVars, buildVars>>

(***************************************************************************)
(* The manifests pruneUnused is given: the categories ui and utils, each   *)
(* block of them present or not, listed or not, with up to MaxLocalDeps    *)
(* local dependencies (its own specifier among them: the single-file path  *)
(* of the builder does not remove it).                                     *)
(***************************************************************************)
PruneSpecifiers == {<<"ui", "a">>, <<"ui", "b">>, <<"utils", "a">>}

\* the elements of a set of specifiers as an array
RECURSIVE SetToSeq(_)
SetToSeq(S) ==
    IF S = {} THEN <<>>
    ELSE LET x == CHOOSE x \in S : TRUE
         IN  <<x>> \o SetToSeq(S \ {x})

PruneBlocks(spec) ==
    {[name |-> spec[2], category |-> spec[1], list |-> l,
      localDependencies |-> SetToSeq(D)] :
        l \in BOOLEAN,
        D \in {D \in SUBSET PruneSpecifiers : Cardinality(D) <= MaxLocalDeps}}

\* the block of a specifier, or none
Slot(spec) == {<<>>} \cup {<<block>> : block \in PruneBlocks(spec)}

InitPrune ==
    /\ \E a \in Slot(<<"ui", "a">>), b \in Slot(<<"ui", "b">>), c \in Slot(<<"utils", "a">>) :
        categories = <<[name |-> "ui", blocks |-> a \o b],
                       [name |-> "utils", blocks |-> c]>>
    /\ pruned = <<>>
    /\ prunedAgain = <<>>
    /\ prunePc = "input"

IdlePrune ==
    /\ categories = <<>> /\ pruned = <<>> /\ prunedAgain = <<>>
    /\ prunePc = "idle"

(***************************************************************************)
(* buildBlocksDirectory, build/index.ts lines 29-252.                      *)
(*                                                                         *)
(* A file name is the sequence of its pieces, the separators "." and "_"   *)
(* among them: a.test.ts is <<"a", ".", "test", ".", "ts">>.  A directory  *)
(* entry is [name, isFile, files] with, for a source file, what the        *)
(* language resolver answers for it: resolves (Ok or Err) and local (the   *)
(* local dependencies of an Ok).  The external dependencies, the dev       *)
(* dependencies and the imports are gathered beside the local ones and     *)
(* decide nothing here; they are left out.                                 *)
(***************************************************************************)
endsWith(file, suffix) ==
    /\ Len(file) >= Len(suffix)
    /\ SubSeq(file, Len(file) - Len(suffix) + 1, Len(file)) = suffix

includes(list, x) == \E i \in 1..Len(list) : list[i] = x

\* line 13
TEST_SUFFIXES ==
    << <<".", "test", ".", "ts">>, <<"_", "test", ".", "ts">>,
       <<".", "test", ".", "js">>, <<"_", "test", ".", "js">> >>

\* lines 15-16
isTestFile(file) ==
    \E i \in 1..Len(TEST_SUFFIXES) : endsWith(file, TEST_SUFFIXES[i])

\* lines 309-311: path.parse(path.basename(file)).name drops the last extension
transformBlockName(file) ==
    LET dots == {i \in 2..Len(file) : file[i] = "."}
    IN  IF dots = {} THEN file
        ELSE SubSeq(file, 1, (CHOOSE i \in dots : \A j \in dots : j <= i) - 1)

\* the extensions some language resolver of ../language-support matches
SupportedExtensions == {"ts", "svelte"}

\* languages.find((resolver) => resolver.matches(file)) finds one
hasLanguage(file) ==
    /\ Len(file) >= 3
    /\ file[Len(file) - 1] = "."
    /\ file[Len(file)] \in SupportedExtensions

\* lines 254-265
shouldListBlock(name, cfg) ==
    IF Len(cfg.doNotListBlocks) > 0 /\ includes(cfg.doNotListBlocks, name) THEN FALSE
    ELSE IF Len(cfg.listBlocks) > 0 THEN includes(cfg.listBlocks, name)
    ELSE TRUE

\* lines 267-278
shouldIncludeBlock(name, cfg) ==
    IF Len(cfg.excludeBlocks) > 0 /\ includes(cfg.excludeBlocks, name) THEN FALSE
    ELSE IF Len(cfg.includeBlocks) > 0 THEN includes(cfg.includeBlocks, name)
    ELSE TRUE

\* lines 280-292
shouldListCategory(name, cfg) ==
    IF Len(cfg.doNotListCategories) > 0 /\ includes(cfg.doNotListCategories, name) THEN FALSE
    ELSE IF Len(cfg.listCategories) > 0 THEN includes(cfg.listCategories, name)
    ELSE TRUE

\* lines 294-306
shouldIncludeCategory(name, cfg) ==
    IF Len(cfg.excludeCategories) > 0 /\ includes(cfg.excludeCategories, name) THEN FALSE
    ELSE IF Len(cfg.includeCategories) > 0 THEN includes(cfg.includeCategories, name)
    ELSE TRUE

\* Set.prototype.add on a Set kept in insertion order
setAdd(set, x) == IF includes(set, x) THEN set ELSE Append(set, x)

\* lines 205-210: add the local dependencies of one file, the block itself left out
RECURSIVE addLocal(_, _, _)
addLocal(localDepsSet, local, self) ==
    IF local = <<>> THEN localDepsSet
    ELSE addLocal(IF Head(local) = self THEN localDepsSet
                  ELSE setAdd(localDepsSet, Head(local)),
                  Tail(local), self)

\* what walkFiles has gathered: blockFiles, localDepsSet, hasTests, and
\* whether a resolver failed (program.error)
NoFiles == [blockFiles |-> <<>>, localDepsSet |-> <<>>, hasTests |-> FALSE, failed |-> FALSE]

\* lines 146-226: walkFiles(base, files); base is the path of the directory
\* relative to the block's directory
RECURSIVE walkFiles(_, _, _, _)
walkFiles(base, files, acc, self) ==
    IF files = <<>> \/ acc.failed THEN acc
    ELSE LET f == Head(files)
             relativeFilePath == Append(base, f.name)
             next ==
                IF isTestFile(f.name)
                THEN [acc EXCEPT !.hasTests = TRUE,
                                 !.blockFiles = Append(@, relativeFilePath)]
                ELSE IF ~f.isFile
                THEN IF ~config.allowSubdirectories THEN acc
                     ELSE walkFiles(relativeFilePath, f.files, acc, self)
                ELSE IF ~hasLanguage(f.name) THEN acc
                ELSE IF ~f.resolves THEN [acc EXCEPT !.failed = TRUE]
                ELSE [acc EXCEPT !.localDepsSet = addLocal(@, f.local, self),
                                 !.blockFiles = Append(@, relativeFilePath)]
         IN  walkFiles(base, Tail(files), next, self)

\* lines 90-92: the first child of the category named `${name}${suffix}`
testsPath(files, name) ==
    SelectSeq(files, LAMBDA f :
        \E i \in 1..Len(TEST_SUFFIXES) : f.name = name \o TEST_SUFFIXES[i])

\* lines 109-126: the block of a single file
fileBlock(file, categoryName, listCategory, files) ==
    LET name == transformBlockName(file.name)
        tests == testsPath(files, name)
    IN  [name |-> name,
         category |-> categoryName,
         tests |-> tests # <<>>,
         subdirectory |-> FALSE,
         list |-> IF listCategory THEN shouldListBlock(name, config) ELSE FALSE,
         files |-> <<<<file.name>>>>
                     \o (IF tests # <<>> THEN <<<<Head(tests).name>>>> ELSE <<>>),
         localDependencies |-> file.local]

\* lines 230-242: the block of a directory
directoryBlock(dir, categoryName, listCategory) ==
    LET walked == walkFiles(<<>>, dir.files, NoFiles, <<categoryName, dir.name>>)
    IN  [name |-> dir.name,
         category |-> categoryName,
         tests |-> walked.hasTests,
         subdirectory |-> TRUE,
         list |-> IF listCategory THEN shouldListBlock(dir.name, config) ELSE FALSE,
         files |-> walked.blockFiles,
         localDependencies |-> walked.localDepsSet]

AtPath == buildPc = "paths" /\ pathIdx <= Len(paths)

categoryPath == paths[pathIdx]

AtFile == buildPc = "files" /\ fileIdx <= Len(categoryPath.files)

file == categoryPath.files[fileIdx]

NextPath ==
    /\ pathIdx' = pathIdx + 1
    /\ UNCHANGED <<paths, config, built, category, fileIdx, buildPc>>

NextFile ==
    /\ fileIdx' = fileIdx + 1
    /\ UNCHANGED <<paths, config, built, pathIdx, category, buildPc>>

Fatal ==
    /\ buildPc' = "fatal"
    /\ UNCHANGED <<paths, config, built, pathIdx, category, fileIdx>>

\* lines 32-36: blocksPath cannot be read
ReadFails ==
    /\ buildPc = "unreadable"
    /\ Fatal
    /\ UNCHANGED <<resolveVars, pruneVars>>

\* line 44: we only check folders
SkipPlainFile ==
    /\ AtPath /\ categoryPath.isFile
    /\ NextPath
    /\ UNCHANGED <<resolveVars, pruneVars>>

\* line 49: the ignore rules match the directory
SkipIgnored ==
    /\ AtPath /\ ~categoryPath.isFile /\ categoryPath.ignored
    /\ NextPath
    /\ UNCHANGED <<resolveVars, pruneVars>>

\* line 53
SkipCategory ==
    /\ AtPath /\ ~categoryPath.isFile /\ ~categoryPath.ignored
    /\ ~shouldIncludeCategory(categoryPath.name, config)
    /\ NextPath
    /\ UNCHANGED <<resolveVars, pruneVars>>

\* lines 55-62
EnterCategory ==
    /\ AtPath /\ ~categoryPath.isFile /\ ~categoryPath.ignored
    /\ shouldIncludeCategory(categoryPath.name, config)
    /\ category' = [name |-> categoryPath.name, blocks |-> <<>>]
    /\ fileIdx' = 1
    /\ buildPc' = "files"
    /\ UNCHANGED <<paths, config, built, pathIdx>>
    /\ UNCHANGED <<resolveVars, pruneVars>>

\* line 68
SkipTestFile ==
    /\ AtFile /\ file.isFile /\ isTestFile(file.name)
    /\ NextFile
    /\ UNCHANGED <<resolveVars, pruneVars>>

\* lines 74 and 134
SkipBlock ==
    /\ AtFile
    /\ \/ /\ file.isFile /\ ~isTestFile(file.name)
          /\ ~shouldIncludeBlock(transformBlockName(file.name), config)
       \/ /\ ~file.isFile
          /\ ~shouldIncludeBlock(file.name, config)
    /\ NextFile
    /\ UNCHANGED <<resolveVars, pruneVars>>

\* lines 76-87: no language resolver matches the file
SkipUnsupported ==
    /\ AtFile /\ file.isFile /\ ~isTestFile(file.name)
    /\ shouldIncludeBlock(transformBlockName(file.name), config)
    /\ ~hasLanguage(file.name)
    /\ NextFile
    /\ UNCHANGED <<resolveVars, pruneVars>>

\* lines 94-128
AddFileBlock ==
    /\ AtFile /\ file.isFile /\ ~isTestFile(file.name)
    /\ shouldIncludeBlock(transformBlockName(file.name), config)
    /\ hasLanguage(file.name)
    /\ file.resolves
    /\ category' = [category EXCEPT !.blocks =
            Append(@, fileBlock(file, category.name,
                                shouldListCategory(category.name, config),
                                categoryPath.files))]
    /\ fileIdx' = fileIdx + 1
    /\ UNCHANGED <<paths, config, built, pathIdx, buildPc>>
    /\ UNCHANGED <<resolveVars, pruneVars>>

\* lines 130-244
AddDirectoryBlock ==
    /\ AtFile /\ ~file.isFile
    /\ shouldIncludeBlock(file.name, config)
    /\ LET block == directoryBlock(file, category.name,
                                   shouldListCategory(category.name, config))
           walked == walkFiles(<<>>, file.files, NoFiles, <<category.name, file.name>>)
       IN  /\ ~walked.failed
           /\ category' = [category EXCEPT !.blocks = Append(@, block)]
    /\ fileIdx' = fileIdx + 1
    /\ UNCHANGED <<paths, config, built, pathIdx, buildPc>>
    /\ UNCHANGED <<resolveVars, pruneVars>>

\* lines 104-106 and 200-202: a resolver failed; program.error
ResolverFails ==
    /\ AtFile
    /\ \/ /\ file.isFile /\ ~isTestFile(file.name)
          /\ shouldIncludeBlock(transformBlockName(file.name), config)
          /\ hasLanguage(file.name)
          /\ ~file.resolves
       \/ /\ ~file.isFile
          /\ shouldIncludeBlock(file.name, config)
          /\ walkFiles(<<>>, file.files, NoFiles, <<category.name, file.name>>).failed
    /\ Fatal
    /\ UNCHANGED <<resolveVars, pruneVars>>

\* line 248: categories.push(category)
LeaveCategory ==
    /\ buildPc = "files" /\ fileIdx > Len(categoryPath.files)
    /\ built' = Append(built, category)
    /\ pathIdx' = pathIdx + 1
    /\ buildPc' = "paths"
    /\ UNCHANGED <<paths, config, category, fileIdx>>
    /\ UNCHANGED <<resolveVars, pruneVars>>

\* line 251
ReturnCategories ==
    /\ buildPc = "paths" /\ pathIdx > Len(paths)
    /\ buildPc' = "done"
    /\ UNCHANGED <<paths, config, built, pathIdx, category, fileIdx>>
    /\ UNCHANGED <<resolveVars, pruneVars>>

(***************************************************************************)
(* The directory trees and configurations buildBlocksDirectory is run on:  *)
(* a category directory ui with up to MaxFiles children, among them the    *)
(* files a.ts, a.svelte, a.test.ts, b.txt and a directory a of up to       *)
(* MaxDirEntries children; beside it a plain file, an ignored directory or *)
(* an empty category directory.  No directory has two children of one      *)
(* name.  The resolver reports no local dependency, the block itself, or   *)
(* another block and the block itself, or fails.                           *)
(***************************************************************************)
SourceFile(name, local, resolves) ==
    [name |-> name, isFile |-> TRUE, local |-> local, resolves |-> resolves, files |-> <<>>]

OtherFile(name) == SourceFile(name, <<>>, TRUE)

Directory(name, files) ==
    [name |-> name, isFile |-> FALSE, local |-> <<>>, resolves |-> TRUE, files |-> files]

BlockA == <<"ui", <<"a">>>>

BlockB == <<"ui", <<"b">>>>

SourceFiles(name) ==
    {SourceFile(name, local, TRUE) : local \in {<<>>, <<BlockA>>, <<BlockB, BlockA>>}}
        \cup {SourceFile(name, <<>>, FALSE)}

Listings(entries, n) ==
    {l \in NoDupSeqs(entries, n) : \A i, j \in 1..Len(l) : l[i].name = l[j].name => i = j}

DirEntries ==
    SourceFiles(<<"index", ".", "ts">>)
        \cup {OtherFile(<<"index", ".", "test", ".", "ts">>),
              OtherFile(<<"notes", ".", "txt">>),
              Directory(<<"sub">>, <<>>),
              Directory(<<"sub">>, <<SourceFile(<<"index", ".", "ts">>, <<BlockA>>, TRUE)>>)}

CategoryEntries ==
    SourceFiles(<<"a", ".", "ts">>)
        \cup {SourceFile(<<"a", ".", "svelte">>, <<>>, TRUE),
              OtherFile(<<"a", ".", "test", ".", "ts">>),
              OtherFile(<<"b", ".", "txt">>)}
        \cup {Directory(<<"a">>, files) : files \in Listings(DirEntries, MaxDirEntries)}

TopEntry(name, isFile, ignored, files) ==
    [name |-> name, isFile |-> isFile, ignored |-> ignored, files |-> files]

Trees ==
    UNION {{<<TopEntry("ui", FALSE, FALSE, files)>>,
            <<TopEntry("README.md", TRUE, FALSE, <<>>), TopEntry("ui", FALSE, FALSE, files)>>,
            <<TopEntry("dist", FALSE, TRUE, <<>>), TopEntry("ui", FALSE, FALSE, files)>>,
            <<TopEntry("ui", FALSE, FALSE, files), TopEntry("utils", FALSE, FALSE, <<>>)>>} :
                files \in Listings(CategoryEntries, MaxFiles)}

\* the defaults of schemas/registry-config.json
DefaultConfig ==
    [includeBlocks |-> <<>>, excludeBlocks |-> <<>>,
     listBlocks |-> <<>>, doNotListBlocks |-> <<>>,
     includeCategories |-> <<>>, excludeCategories |-> <<>>,
     listCategories |-> <<>>, doNotListCategories |-> <<>>,
     allowSubdirectories |-> FALSE]

\* a configuration that sets at most one policy list
Configs ==
    LET policies ==
            {DefaultConfig}
                \cup {[DefaultConfig EXCEPT ![k] = <<<<"a">>>>] :
                        k \in {"includeBlocks", "excludeBlocks", "listBlocks", "doNotListBlocks"}}
                \cup {[DefaultConfig EXCEPT ![k] = <<"ui">>] :
                        k \in {"includeCategories", "excludeCategories",
                               "listCategories", "doNotListCategories"}}
    IN  {[c EXCEPT !.allowSubdirectories = allow] : c \in policies, allow \in BOOLEAN}

InitBuild ==
    /\ \/ paths \in Trees /\ buildPc = "paths"
       \/ paths = <<>> /\ buildPc = "unreadable"
    /\ config \in Configs
    /\ built = <<>>
    /\ pathIdx = 1
    /\ category = <<>>
    /\ fileIdx = 0

IdleBuild ==
    /\ paths = <<>> /\ config = <<>> /\ built = <<>> /\ pathIdx = 0
    /\ category = <<>> /\ fileIdx = 0 /\ buildPc = "idle"

(***************************************************************************)
(* The specifications: one per operation.                                  *)
(***************************************************************************)

\* one registry publishing up to three blocks
InitOneRegistry == InitResolve(Specifiers, {"r1"})

\* two registries publishing up to two blocks each, under the same names
InitTwoRegistries == InitResolve({<<"ui", "a">>, <<"ui", "b">>}, Registries)

Init == (InitOneRegistry \/ InitTwoRegistries) /\ IdlePrune /\ IdleBuild

Next ==
    \/ ResolveErr
    \/ ResolveLeaf
    \/ ResolveCall
    \/ AwaitErr
    \/ AwaitOk
    \/ ReturnOk

Spec == Init /\ [][Next]_vars

NextPrune ==
    \/ Prune
    \/ PruneAgain

PruneInit == InitPrune /\ IdleResolve /\ IdleBuild

SpecPrune == PruneInit /\ [][NextPrune]_vars

NextBuild ==
    \/ ReadFails
    \/ SkipPlainFile
    \/ SkipIgnored
    \/ SkipCategory
    \/ EnterCategory
    \/ SkipTestFile
    \/ SkipBlock
    \/ SkipUnsupported
    \/ AddFileBlock
    \/ AddDirectoryBlock
    \/ ResolverFails
    \/ LeaveCategory
    \/ ReturnCategories

BuildInit == InitBuild /\ IdleResolve /\ IdlePrune

SpecBuild == BuildInit /\ [][NextBuild]_vars

(***************************************************************************)
(* Properties of resolveTree.                                              *)
(***************************************************************************)
RequestedSpecifiers == {requested[i].spec : i \in 1..Len(requested)}

\* the specifiers of the entries of the returned list
ResultSpecifiers == {SpecifierOf(ret.val[i].block) : i \in 1..Len(ret.val)}

\* the block specifiers reached from B along localDependencies
RECURSIVE ReachableFrom(_)
ReachableFrom(B) ==
    LET found == {bs \in B : ~noRepos(bs) /\ ~notFound(bs)}
        more == {Bare(d) : d \in UNION {Range(lookupBlock(bs).localDependencies) : bs \in found}}
    IN  IF more \subseteq B THEN B ELSE ReachableFrom(B \cup more)

\* C1: resolveTree terminates on every finite local-dependency graph, cycles
\* of any length included: the recursion never repeats a call that is still
\* active (no infinite recursion).
C1_Terminates == status # "overflow"

\* C2: when resolveTree succeeds with an empty alreadyInstalled, the result
\* has an entry for every block reachable from the requested specifiers
\* along localDependencies, and no specifier twice.
C2_AllReachableResolved ==
    (status = "ok" /\ alreadyInstalled = {}) =>
        /\ \A bs \in ReachableFrom(Range(requested)) : bs.spec \in ResultSpecifiers
        /\ \A i, j \in 1..Len(ret.val) :
              SpecifierOf(ret.val[i].block) = SpecifierOf(ret.val[j].block) => i = j

\* a chain a -> b -> c requested by its head, resolved to three entries
C2_Witness ==
    /\ status = "ok" /\ alreadyInstalled = {}
    /\ Len(requested) = 1 /\ Len(ret.val) = 3
    /\ \E i \in 1..3 : Len(ret.val[i].block.localDependencies) = 0

\* C3: in the result, an entry of a requested specifier has subDependency =
\* false and an entry pulled in only through localDependencies has
\* subDependency = true.
C3_SubDependencyFlags ==
    status = "ok" =>
        \A i \in 1..Len(ret.val) :
            ret.val[i].subDependency
                = (SpecifierOf(ret.val[i].block) \notin RequestedSpecifiers)

\* C4: once resolving a specifier has failed, at any depth, the call never
\* succeeds: the first error travels unchanged to the caller of every active
\* call, and the result is that error and no list of blocks.  The error is
\* NoRepositoryConfigured for a bare specifier while no registry is
\* configured, BlockNotFound otherwise.
C4_ErrorAborts ==
    /\ isErr(firstError) =>
        /\ status \in {"running", "err"}
        /\ ret = firstError
        /\ ret.val = <<>>
        /\ status = "running" => Top.pc = "await"
        /\ (ret.error = "NoRepositoryConfigured")
              = (~selectProvider(ret.at) /\ repoPaths = <<>>)
        /\ ret.error \in {"NoRepositoryConfigured", "BlockNotFound"}
    /\ status = "err" => isErr(firstError)

\* a dependency fails two calls deep and the top-level call returns its error
C4_Witness ==
    /\ status = "err"
    /\ ret.at.spec \notin RequestedSpecifiers
    /\ \A s \in RequestedSpecifiers : resolveCount[s] > 0

\* C8: no specifier of alreadyInstalled is in the result merely as a
\* transitive dependency, at whatever depth it was reached.
C8_InstalledExcluded ==
    status = "ok" =>
        \A i \in 1..Len(ret.val) :
            SpecifierOf(ret.val[i].block) \in alreadyInstalled
                => SpecifierOf(ret.val[i].block) \in RequestedSpecifiers

\* C9: first wins: once the top-level call has recorded an entry for a
\* specifier, no later step replaces that entry's block or its flag.
C9_FirstWins ==
    [][(stack # <<>> /\ stack' # <<>>) =>
          \A k \in MapKeys(stack[1].blocks) :
              /\ MapHas(stack'[1].blocks, k)
              /\ MapGet(stack'[1].blocks, k) = MapGet(stack[1].blocks, k)]_vars

(***************************************************************************)
(* Properties of pruneUnused.                                              *)
(***************************************************************************)
AllBlocks(cats) == UNION {Range(cats[i].blocks) : i \in 1..Len(cats)}

\* the block is in the category of its name in cats
Survives(block, cats) ==
    \E i \in 1..Len(cats) :
        cats[i].name = block.category /\ block \in Range(cats[i].blocks)

C6_PruneIdempotent == prunePc = "again" => prunedAgain = pruned

(***************************************************************************)
(* Properties of buildBlocksDirectory.                                     *)
(***************************************************************************)

\* every block appended so far, to a finished category or to the current one
BuiltBlocks ==
    AllBlocks(built) \cup (IF buildPc = "files" THEN Range(category.blocks) ELSE {})

\* C7: the localDependencies of a block never contain the block's own
\* specifier category/name, for a single-file block and for a directory
\* block alike, whatever the language resolver reports.
C7_NoSelfDependency ==
    \A block \in BuiltBlocks : SpecifierOf(block) \notin Range(block.localDependencies)

\* C10: every block appended to a category has a non-empty files sequence.
C10_FilesNonEmpty ==
    \A block \in BuiltBlocks : Len(block.files) > 0

\* the categories built so far, the one being filled among them
BuiltCategories ==
    Range(built) \cup (IF buildPc = "files" THEN {category} ELSE {})

\* C11: within each category the block names are unique: no two children of
\* a category directory yield two blocks of one name, so category/name
\* identifies exactly one block.
C11_UniqueNames ==
    \A cat \in BuiltCategories :
        \A i, j \in 1..Len(cat.blocks) :
            cat.blocks[i].name = cat.blocks[j].name => i = j

====
